---- MODULE Spec2Model ----
(***************************************************************************)
(* Model of src/server.py: a GitHub MCP server.  Module start-up (token    *)
(* check, client, server, tool registration, transport) followed by the    *)
(* four stateless tool handlers, each one action from an idle server.      *)
(*                                                                         *)
(* Python values: None is PyNone, a str is a sequence of code points or a  *)
(* TLA+ string for opaque literals, a datetime is [tag |-> "time", t].     *)
(* A returned string is a sequence of tokens: literal text, an             *)
(* interpolated value, a newline, or a json.dumps(..., indent=2) body.     *)
(***************************************************************************)
EXTENDS Integers, Sequences, FiniteSets

VARIABLES pc, token, node_env, is_main, exit_status, gh, tools, transport,
          stdout_used, req, res

vars == <<pc, token, node_env, is_main, exit_status, gh, tools, transport,
          stdout_used, req, res>>

(* ---------------------------------------------------------------- bounds *)
MaxRepos == 3
MaxPerPage == 2
MaxPage == 3
MaxRun == 12

(* ------------------------------------------------------ program constants *)
SampleLen == 100
BinaryThreshold == 10
PreviewCap == 4000

(* ---------------------------------------------------------- Python values *)
PyNone == [tag |-> "None"]
PyStr(s) == [tag |-> "str", s |-> s]
Time(t) == [tag |-> "time", t |-> t]

Min(a, b) == IF a < b THEN a ELSE b
Max(a, b) == IF a > b THEN a ELSE b

\* s[start:end] for 0 <= start, 0 <= end (the only slices the handlers take)
Slice(s, start, end) == SubSeq(s, Min(start, Len(s)) + 1, Min(end, Len(s)))

Reverse(s) == [i \in 1..Len(s) |-> s[Len(s) + 1 - i]]

\* f-string interpolation of a value that may be None
Fmt(v) == IF v.tag = "None" THEN "None" ELSE v.s

(* ----------------------------------------------------------------- tokens *)
T(s) == [k |-> "text", v |-> s]
V(x) == [k |-> "value", v |-> x]
NL == [k |-> "nl", v |-> ""]
Json(x) == [k |-> "json", v |-> x]

Returned(out) == [kind |-> "returned", exc |-> "", msg |-> <<>>, out |-> out]
Raised(exc, msg) == [kind |-> "raised", exc |-> exc, msg |-> msg, out |-> <<>>]
Idle == [tool |-> "none"]
NoResult == [kind |-> "none", exc |-> "", msg |-> <<>>, out |-> <<>>]

(* --------------------------------------------------------------- start-up *)
Tokens == {PyNone, PyStr(""), PyStr("ghp_token")}

TokenMissingOnlyNone(tok) == tok.tag = "None"

\* `not GITHUB_TOKEN`: None or the empty string
TokenMissing(tok) == IF tok.tag = "None" THEN TRUE ELSE tok.s = ""

ToolNames == <<"list_repositories", "get_repository", "search_repositories",
               "get_repository_contents">>

Init ==
    /\ pc = "load_env"
    /\ token \in Tokens
    /\ node_env \in {"production", "development"}
    /\ is_main \in BOOLEAN
    /\ exit_status = -1
    /\ gh = FALSE
    /\ tools = <<>>
    /\ transport = "none"
    /\ stdout_used = FALSE
    /\ req = Idle
    /\ res = NoResult

\* lines 26-29: raise SystemExit(1), nothing printed
ExitNoToken ==
    /\ pc = "load_env"
    /\ TokenMissing(token)
    /\ pc' = "exited"
    /\ exit_status' = 1
    /\ UNCHANGED <<token, node_env, is_main, gh, tools, transport, stdout_used,
                   req, res>>

\* line 32: gh = Github(GITHUB_TOKEN)
MakeClient ==
    /\ pc = "load_env"
    /\ ~TokenMissing(token)
    /\ gh' = TRUE
    /\ pc' = "client"
    /\ UNCHANGED <<token, node_env, is_main, exit_status, tools, transport,
                   stdout_used, req, res>>

\* lines 39-52: mcp = FastMCP(...)
MakeServer ==
    /\ pc = "client"
    /\ pc' = "register"
    /\ UNCHANGED <<token, node_env, is_main, exit_status, gh, tools, transport,
                   stdout_used, req, res>>

\* the four @mcp.tool() decorators, in file order
RegisterTool ==
    /\ pc = "register"
    /\ Len(tools) < Len(ToolNames)
    /\ tools' = Append(tools, ToolNames[Len(tools) + 1])
    /\ UNCHANGED <<pc, token, node_env, is_main, exit_status, gh, transport,
                   stdout_used, req, res>>

\* lines 307-314: the entry point; logging goes to stderr
RunTransport ==
    /\ pc = "register"
    /\ Len(tools) = Len(ToolNames)
    /\ IF is_main
         THEN /\ transport' = IF node_env = "production" THEN "streamable-http"
                                                          ELSE "stdio"
              /\ pc' = "serving"
         ELSE /\ transport' = transport
              /\ pc' = "imported"
    /\ UNCHANGED <<token, node_env, is_main, exit_status, gh, tools,
                   stdout_used, req, res>>

\* the transport hands the handler's result back; stdio frames go to stdout
Deliver ==
    /\ pc = "serving"
    /\ req # Idle
    /\ req' = Idle
    /\ res' = NoResult
    /\ stdout_used' = (stdout_used \/ transport = "stdio")
    /\ UNCHANGED <<pc, token, node_env, is_main, exit_status, gh, tools,
                   transport>>

Ready == pc = "serving" /\ req = Idle

(* ------------------------------------------------------ provider fixtures *)
\* GithubException values the provider client can raise: structured data with
\* a message, structured data without one (a non-JSON error body is wrapped as
\* {"data": ...}), no data, and an empty dict.  text is str(e).
GhErrors ==
    { [data |-> [tag |-> "dict", d |-> [message |-> "Not Found"]],
       text |-> "404 {\"message\": \"Not Found\"}"],
      [data |-> [tag |-> "dict", d |-> [data |-> "<html>Bad Gateway</html>"]],
       text |-> "502 {\"data\": \"<html>Bad Gateway</html>\"}"],
      [data |-> [tag |-> "None"], text |-> "500 null"],
      [data |-> [tag |-> "dict", d |-> <<>>], text |-> "503 {}"] }

Ok == [tag |-> "ok"]
Rejected(e) == [tag |-> "GithubException", e |-> e]
ProviderOutcomes == {Ok} \cup {Rejected(e) : e \in GhErrors}

RepoPool ==
    { [name |-> "Zeta", full_name |-> <<90, 101, 116, 97>>, private |-> FALSE,
       aff |-> "owner", created_at |-> Time(3), updated_at |-> Time(1),
       pushed_at |-> Time(2)],
      [name |-> "alpha", full_name |-> <<97, 108, 112, 104, 97>>,
       private |-> FALSE, aff |-> "owner", created_at |-> Time(1),
       updated_at |-> Time(2), pushed_at |-> Time(2)],
      [name |-> "Beta", full_name |-> <<66, 101, 116, 97>>, private |-> FALSE,
       aff |-> "collaborator", created_at |-> Time(1), updated_at |-> Time(2),
       pushed_at |-> PyNone],
      [name |-> "beta", full_name |-> <<98, 101, 116, 97>>, private |-> TRUE,
       aff |-> "organization_member", created_at |-> Time(2),
       updated_at |-> Time(3), pushed_at |-> Time(1)] }

\* what the provider can return: sequences of distinct repositories
RepoLists ==
    UNION { { s \in [1..n -> RepoPool] :
                \A i, j \in 1..n : i # j => s[i] # s[j] } : n \in 0..MaxRepos }

(* ------------------------------------------------------------------ _err_msg *)
\* e.data.get("message") if getattr(e, "data", None) else str(e)
ErrMsg(e) ==
    IF e.data.tag = "dict" /\ DOMAIN e.data.d # {}
      THEN IF "message" \in DOMAIN e.data.d THEN PyStr(e.data.d.message)
                                             ELSE PyNone
      ELSE PyStr(e.text)

(* ------------------------------------------------------- list_repositories *)
\* user.get_repos(...) per `type`, lines 72-81
GetRepos(all, type) ==
    CASE type = "owner" -> SelectSeq(all, LAMBDA r : r.aff = "owner")
      [] type = "member" ->
           SelectSeq(all, LAMBDA r : r.aff \in {"collaborator",
                                                 "organization_member"})
      [] type = "public" -> SelectSeq(all, LAMBDA r : ~r.private)
      [] type = "private" -> SelectSeq(all, LAMBDA r : r.private)
      [] OTHER -> all

\* str.lower() on ASCII code points
LowerChar(c) == IF 65 <= c /\ c <= 90 THEN c + 32 ELSE c
Lower(s) == [i \in 1..Len(s) |-> LowerChar(s[i])]

\* the sort_key dict, lines 83-88
SortKey(sort, r) ==
    CASE sort = "created" -> r.created_at
      [] sort = "updated" -> r.updated_at
      [] sort = "pushed" -> r.pushed_at
      [] OTHER -> [tag |-> "str", s |-> Lower(r.full_name)]

RECURSIVE LexLess(_, _)
LexLess(a, b) ==
    IF b = <<>> THEN FALSE
    ELSE IF a = <<>> THEN TRUE
    ELSE IF a[1] # b[1] THEN a[1] < b[1]
    ELSE LexLess(Tail(a), Tail(b))

\* a < b on two keys of the same type (str or datetime)
KeyLess(a, b) == IF a.tag = "str" THEN LexLess(a.s, b.s) ELSE a.t < b.t

\* x goes after every element whose key is <= its own
RECURSIVE InsertStable(_, _, _)
InsertStable(x, s, sort) ==
    IF s = <<>> THEN <<x>>
    ELSE IF KeyLess(SortKey(sort, x), SortKey(sort, s[1]))
           THEN <<x>> \o s
           ELSE <<s[1]>> \o InsertStable(x, Tail(s), sort)

RECURSIVE StableSort(_, _)
StableSort(s, sort) ==
    IF s = <<>> THEN <<>>
    ELSE InsertStable(s[Len(s)], StableSort(SubSeq(s, 1, Len(s) - 1), sort), sort)

SortedNaiveReverse(s, sort, reverse) ==
    IF Len(s) >= 2 /\ \E i \in 1..Len(s) : SortKey(sort, s[i]).tag = "None"
      THEN [tag |-> "TypeError"]
      ELSE [tag |-> "ok",
            v |-> IF reverse THEN Reverse(StableSort(s, sort))
                             ELSE StableSort(s, sort)]

\* sorted(repos_iter, key=sort_key, reverse=...), line 89.  list.sort compares
\* every element of a list of two or more with a neighbour, and None supports
\* no ordering, so a None key among two or more raises TypeError.  reverse=True
\* reverses, sorts stably, and reverses back.
Sorted(s, sort, reverse) ==
    IF Len(s) >= 2 /\ \E i \in 1..Len(s) : SortKey(sort, s[i]).tag = "None"
      THEN [tag |-> "TypeError"]
      ELSE [tag |-> "ok",
            v |-> IF reverse THEN Reverse(StableSort(Reverse(s), sort))
                             ELSE StableSort(s, sort)]

WindowOffByOne(s, page, per_page) == Slice(s, page * per_page, (page + 1) * per_page)

\* lines 91-93 and 167-169
Window(s, page, per_page) ==
    Slice(s, (page - 1) * per_page, (page - 1) * per_page + per_page)

\* r.updated_at.isoformat() if r.updated_at else None
Iso(t) == IF t.tag = "None" THEN PyNone ELSE [tag |-> "iso", t |-> t.t]

Summary(r) ==
    [name |-> r.name, full_name |-> r.full_name, private |-> r.private,
     updated_at |-> Iso(r.updated_at), created_at |-> Iso(r.created_at)]

ListResult(all, outcome, type, sort, direction, per_page, page) ==
    IF outcome.tag = "GithubException"
      THEN Raised("RuntimeError",
                  <<"Failed to list repositories: ", Fmt(ErrMsg(outcome.e))>>)
    ELSE LET repos == Sorted(GetRepos(all, type), sort, direction = "desc")
         IN IF repos.tag = "TypeError"
              THEN Raised("TypeError", <<"'<' not supported">>)
              ELSE LET window == Window(repos.v, page, per_page)
                       payload == [i \in 1..Len(window) |-> Summary(window[i])]
                   IN Returned(<<T("Found "), V(Len(payload)),
                                 T(" repositories:"), NL, NL, Json(payload)>>)

list_repositories ==
    /\ Ready
    /\ \E all \in RepoLists, outcome \in ProviderOutcomes,
          type \in {"all", "owner", "public", "private", "member"},
          sort \in {"created", "updated", "pushed", "full_name"},
          direction \in {"asc", "desc"},
          per_page \in 1..MaxPerPage, page \in 1..MaxPage :
         /\ outcome # Ok => all = <<>>
         /\ req' = [tool |-> "list_repositories", all |-> all,
                    outcome |-> outcome, type |-> type, sort |-> sort,
                    direction |-> direction, per_page |-> per_page,
                    page |-> page]
         /\ res' = ListResult(all, outcome, type, sort, direction, per_page,
                              page)
    /\ UNCHANGED <<pc, token, node_env, is_main, exit_status, gh, tools,
                   transport, stdout_used>>

(* ----------------------------------------------------- search_repositories *)
SearchSummary(r) ==
    [name |-> r.name, full_name |-> r.full_name,
     updated_at |-> Iso(r.updated_at)]

SearchResult(results, outcome, per_page, page) ==
    IF outcome.tag = "GithubException"
      THEN Raised("RuntimeError",
                  <<"Failed to search repositories: ", Fmt(ErrMsg(outcome.e))>>)
      ELSE LET items == Window(results, page, per_page)
               repos == [i \in 1..Len(items) |-> SearchSummary(items[i])]
           IN Returned(<<T("Search Results:"), NL, NL,
                         Json([approx_total |-> Len(results), items |-> repos])>>)

search_repositories ==
    /\ Ready
    /\ \E results \in RepoLists, outcome \in ProviderOutcomes,
          sort \in {"", "stars", "forks", "help-wanted-issues", "updated"},
          order \in {"asc", "desc"},
          per_page \in 1..MaxPerPage, page \in 1..MaxPage :
         /\ outcome # Ok => results = <<>> /\ sort = "" /\ order = "desc"
         /\ req' = [tool |-> "search_repositories", results |-> results,
                    outcome |-> outcome, sort |-> sort, order |-> order,
                    per_page |-> per_page, page |-> page]
         /\ res' = SearchResult(results, outcome, per_page, page)
    /\ UNCHANGED <<pc, token, node_env, is_main, exit_status, gh, tools,
                   transport, stdout_used>>


(* ---------------------------------------------------------- get_repository *)
Owners == {"octo"}
RepoNames == {"demo", "gone"}

OtherError == [tag |-> "ConnectionError"]
AssertionFailed == [tag |-> "AssertionError"]

\* r.get_license().license.spdx_id: a license, a provider rejection (404 when
\* there is no license file), or an AttributeError on a missing license object
LicenseOutcomes ==
    {[tag |-> "ok", spdx |-> "MIT"], [tag |-> "AttributeError"]}
        \cup {Rejected(e) : e \in GhErrors}

LicenseNarrowCatch(lic) ==
    CASE lic.tag = "ok" -> [tag |-> "value", v |-> PyStr(lic.spdx)]
      [] lic.tag = "AttributeError" -> [tag |-> "value", v |-> PyNone]
      [] OTHER -> [tag |-> "escaped", exc |-> lic]

\* the inner try / except Exception, lines 123-126
License(lic) ==
    IF lic.tag = "ok" THEN [tag |-> "value", v |-> PyStr(lic.spdx)]
                      ELSE [tag |-> "value", v |-> PyNone]

\* an exception leaving the handler body meets `except GithubException` (lines
\* 151-152); anything else propagates as it is
RepositoryFailure(owner, repo, x) ==
    IF x.tag = "GithubException"
      THEN Raised("RuntimeError",
                  <<"Failed to get repository ", owner, "/", repo, ": ",
                    Fmt(ErrMsg(x.e))>>)
      ELSE Raised(x.tag, <<>>)

GetRepositoryResult(owner, repo, found, lic, topics) ==
    IF found.tag # "ok" THEN RepositoryFailure(owner, repo, found)
    ELSE LET l == License(lic)
         IN IF l.tag = "escaped" THEN RepositoryFailure(owner, repo, l.exc)
            ELSE IF topics.tag # "ok"
                   THEN RepositoryFailure(owner, repo, topics)
                   ELSE Returned(<<T("Repository Details:"), NL, NL,
                                   Json([name |-> repo,
                                         full_name |-> <<owner, "/", repo>>,
                                         topics |-> <<"mcp">>,
                                         license |-> l.v])>>)

get_repository ==
    /\ Ready
    /\ \E owner \in Owners, repo \in RepoNames,
          found \in ProviderOutcomes \cup {OtherError},
          lic \in LicenseOutcomes, topics \in ProviderOutcomes :
         /\ req' = [tool |-> "get_repository", owner |-> owner, repo |-> repo,
                    found |-> found, lic |-> lic, topics |-> topics]
         /\ res' = GetRepositoryResult(owner, repo, found, lic, topics)
    /\ UNCHANGED <<pc, token, node_env, is_main, exit_status, gh, tools,
                   transport, stdout_used>>

(* ------------------------------------------------- get_repository_contents *)
Paths == {"", "src/blob"}

TruncatedMarker ==
    <<10, 46, 46, 46, 91, 116, 114, 117, 110, 99, 97, 116, 101, 100, 93, 46,
      46, 46>>
BinaryPlaceholder ==
    <<91, 66, 105, 110, 97, 114, 121, 32, 102, 105, 108, 101, 32, 112, 114,
      101, 118, 105, 101, 119, 32, 111, 109, 105, 116, 116, 101, 100, 93>>
UndecodablePlaceholder ==
    <<91, 85, 110, 97, 98, 108, 101, 32, 116, 111, 32, 100, 101, 99, 111, 100,
      101, 32, 102, 105, 108, 101, 32, 99, 111, 110, 116, 101, 110, 116, 115,
      93>>

\* file bodies: n bytes of "a" with a run of k bytes of value c after offset off
FileBytes(n, c, k, off) ==
    [i \in 1..n |-> IF off < i /\ i <= off + k THEN c ELSE 97]
FileLens ==
    {0, 1, BinaryThreshold, BinaryThreshold + 1, SampleLen, SampleLen + MaxRun,
     PreviewCap - 1, PreviewCap, PreviewCap + 1, PreviewCap + 1000}
RunBytes == {0, 8, 9, 10, 11, 12, 13, 14, 31, 32, 255}
RunOffsets ==
    {0, SampleLen - BinaryThreshold - 1, SampleLen - BinaryThreshold, SampleLen}

\* a ContentFile: base64 content (empty for an empty file), content with broken
\* padding, or an entry the provider sent with no base64 encoding
Base64File(bytes) ==
    [encoding |-> "base64",
     content |-> IF bytes = <<>> THEN [tag |-> "empty"]
                                 ELSE [tag |-> "b64", bytes |-> bytes],
     decoded |-> [tag |-> "bytes", bytes |-> bytes]]
BrokenFile ==
    [encoding |-> "base64", content |-> [tag |-> "badpad"],
     decoded |-> [tag |-> "raise"]]
UnencodedFile ==
    [encoding |-> "none", content |-> [tag |-> "empty"],
     decoded |-> [tag |-> "raise"]]

\* bytes.decode("utf-8", errors="replace") on ASCII bytes and the byte 0xFF,
\* which is never valid UTF-8 and becomes U+FFFD
Utf8Replace(bytes) ==
    [i \in 1..Len(bytes) |-> IF bytes[i] < 128 THEN bytes[i] ELSE 65533]

\* lines 238-249: the decoded text, None, or an exception leaving the block
DecodeText(f) ==
    IF f.encoding = "base64" /\ f.content.tag # "empty"
      THEN IF f.content.tag = "badpad"
             THEN [tag |-> "escaped", exc |-> "binascii.Error"]
             ELSE [tag |-> "text", s |-> Utf8Replace(f.content.bytes)]
      ELSE IF f.decoded.tag = "raise"
             THEN [tag |-> "None"]
             ELSE [tag |-> "text", s |-> Utf8Replace(f.decoded.bytes)]

NonPrintableBelow32(c) == c < 32 /\ c \notin {9, 10, 13}

\* ord(c) < 9 or (13 < ord(c) < 32), line 255
NonPrintable(c) == c < 9 \/ (13 < c /\ c < 32)

\* lines 251-258
IsBinary(text) ==
    LET sample == Slice(text, 0, SampleLen)
        non_printable == Cardinality({i \in 1..Len(sample) :
                                        NonPrintable(sample[i])})
    IN non_printable > BinaryThreshold

TextPreviewStrict(text) ==
    IF Len(text) < PreviewCap THEN text
                              ELSE Slice(text, 0, PreviewCap) \o TruncatedMarker

\* lines 265-269
TextPreview(text) ==
    IF Len(text) <= PreviewCap THEN text
                               ELSE Slice(text, 0, PreviewCap) \o TruncatedMarker

\* lines 260-269
Preview(t) ==
    IF t.tag = "None" THEN UndecodablePlaceholder
    ELSE IF IsBinary(t.s) THEN BinaryPlaceholder
    ELSE TextPreview(t.s)

Where(owner, repo, path) ==
    IF path # "" THEN <<owner, "/", repo, "/", path>> ELSE <<owner, "/", repo>>

DebugInfo(type) ==
    <<T("[DEBUG] contents type: "), V(type), T(", repr: "), V("...")>>

ContentsFailureOnlyProvider(owner, repo, path, x) ==
    IF x.tag = "GithubException"
      THEN Raised("RuntimeError",
                  <<"Failed to get contents for ">> \o Where(owner, repo, path)
                     \o <<": ", Fmt(ErrMsg(x.e))>>)
      ELSE Returned(<<T("Unexpected error while getting contents for ")>>)

\* the outer handlers, lines 294-301
ContentsFailure(owner, repo, path, x) ==
    IF x.tag = "GithubException"
      THEN Raised("RuntimeError",
                  <<"Failed to get contents for ">> \o Where(owner, repo, path)
                     \o <<": ", Fmt(ErrMsg(x.e))>>)
      ELSE Raised("RuntimeError",
                  <<"Unexpected error while getting contents for ">>
                     \o Where(owner, repo, path) \o <<": ", x.tag>>)

ContentsResult(owner, repo, path, found, contents) ==
    IF found.tag # "ok" THEN ContentsFailure(owner, repo, path, found)
    ELSE IF contents.tag = "AssertionError"
      THEN Returned(<<T("[DEBUG] AssertionError while getting contents for ")>>
                      \o [i \in 1..Len(Where(owner, repo, path)) |->
                            V(Where(owner, repo, path)[i])]
                      \o <<T(": "), V("AssertionError()"), NL, T("path: "),
                           V(path), T(", ref: "), V("main")>>)
    ELSE IF contents.tag = "dir"
      THEN Returned(DebugInfo("list")
                      \o <<NL, T("Directory Contents ("),
                           V(IF path # "" THEN path ELSE "root"), T("):"),
                           NL, NL, Json(contents.entries)>>)
    ELSE IF contents.tag = "file"
      THEN LET t == DecodeText(contents.f)
           IN IF t.tag = "escaped"
                THEN Returned(DebugInfo("ContentFile")
                                \o <<NL, T("Unexpected error decoding file for ")>>
                                \o [i \in 1..Len(Where(owner, repo, path)) |->
                                      V(Where(owner, repo, path)[i])]
                                \o <<T(": "), V(t.exc)>>)
                ELSE Returned(DebugInfo("ContentFile")
                                \o <<NL, T("File Details:"), NL, NL,
                                     Json([name |-> path,
                                           preview |-> Preview(t)])>>)
    ELSE ContentsFailure(owner, repo, path, contents)

SmallContents ==
    {AssertionFailed, OtherError, [tag |-> "dir", entries |-> <<"README.md">>],
     [tag |-> "dir", entries |-> <<>>], [tag |-> "file", f |-> BrokenFile],
     [tag |-> "file", f |-> UnencodedFile]}
        \cup {Rejected(e) : e \in GhErrors}

\* the files served: every run in the short files, where the sample decides;
\* plain and fully binary-headed bodies at the lengths around the preview cap
FileShapes ==
    { sh \in FileLens \X RunBytes \X (0..MaxRun) \X RunOffsets :
        sh[1] > SampleLen + MaxRun =>
            /\ sh[2] \in {0, 255} /\ sh[3] \in {0, MaxRun} /\ sh[4] = 0 }

ContentsCases ==
    {<<Ok, small>> : small \in SmallContents}
        \cup {<<found, AssertionFailed>> :
                found \in {Rejected(e) : e \in GhErrors}
                            \cup {OtherError, AssertionFailed}}

get_repository_contents ==
    /\ Ready
    /\ \E owner \in Owners, path \in Paths :
         \/ \E sh \in FileShapes :
              LET contents == [tag |-> "file",
                               f |-> Base64File(FileBytes(sh[1], sh[2], sh[3],
                                                          sh[4]))]
              IN /\ req' = [tool |-> "get_repository_contents",
                            owner |-> owner, repo |-> "demo", path |-> path,
                            found |-> Ok, contents |-> contents]
                 /\ res' = ContentsResult(owner, "demo", path, Ok, contents)
         \/ \E repo \in RepoNames, cs \in ContentsCases :
              /\ req' = [tool |-> "get_repository_contents", owner |-> owner,
                         repo |-> repo, path |-> path, found |-> cs[1],
                         contents |-> cs[2]]
              /\ res' = ContentsResult(owner, repo, path, cs[1], cs[2])
    /\ UNCHANGED <<pc, token, node_env, is_main, exit_status, gh, tools,
                   transport, stdout_used>>

Next == ExitNoToken \/ MakeClient \/ MakeServer \/ RegisterTool \/ RunTransport
        \/ Deliver \/ list_repositories \/ search_repositories
        \/ get_repository \/ get_repository_contents

Spec == Init /\ [][Next]_vars

(* ----------------------------------------------------------------- claims *)
Body(r) == r.out[Len(r.out)].v
ListOk == req.tool = "list_repositories" /\ res.kind = "returned"
Start == (req.page - 1) * req.per_page
FileText == DecodeText(req.contents.f)
FileOk ==
    /\ req.tool = "get_repository_contents"
    /\ res.kind = "returned"
    /\ req.found = Ok
    /\ req.contents.tag = "file"
    /\ FileText.tag # "escaped"

\* C1: list_repositories and search_repositories return the contiguous slice
\* [(page-1)*per_page, page*per_page) of the (filtered, sorted) result sequence,
\* in order, of length min(per_page, max(0, total - (page-1)*per_page)).
C1_WindowIsSlice ==
    /\ ListOk =>
         LET seq == Sorted(GetRepos(req.all, req.type), req.sort,
                           req.direction = "desc").v
             window == Body(res)
         IN /\ Len(window) = Min(req.per_page, Max(0, Len(seq) - Start))
            /\ \A i \in 1..Len(window) : window[i] = Summary(seq[Start + i])
    /\ (req.tool = "search_repositories" /\ res.kind = "returned") =>
         LET seq == req.results
             window == Body(res).items
         IN /\ Len(window) = Min(req.per_page, Max(0, Len(seq) - Start))
            /\ \A i \in 1..Len(window) :
                 window[i] = SearchSummary(seq[Start + i])

\* a second page that holds only the last of three repositories
C1_Witness ==
    /\ ListOk
    /\ req.page = 2 /\ req.per_page = 2
    /\ Len(GetRepos(req.all, req.type)) = 3
    /\ Len(Body(res)) = 1

\* C2: with sort="full_name" the filtered repositories are ordered by full
\* name ignoring case, ascending or descending, and repositories whose names
\* are equal ignoring case keep the provider's order in both directions; the
\* public repositories Zeta, alpha, Beta give [alpha, Beta] for asc, per_page 2,
\* page 1.
FoldedLess(a, b) == LexLess(Lower(a.full_name), Lower(b.full_name))
\* how many repositories of f come before f[a] in the claimed order
Rank(f, a, desc) ==
    Cardinality({b \in 1..Len(f) :
        \/ IF desc THEN FoldedLess(f[a], f[b]) ELSE FoldedLess(f[b], f[a])
        \/ /\ ~FoldedLess(f[a], f[b]) /\ ~FoldedLess(f[b], f[a])
           /\ b < a})
C2_FullNameOrder ==
    (ListOk /\ req.sort = "full_name") =>
        LET f == GetRepos(req.all, req.type)
            window == Body(res)
        IN /\ \A i \in 1..Len(window) :
                \E a \in 1..Len(f) :
                    /\ Rank(f, a, req.direction = "desc") = Start + i - 1
                    /\ window[i] = Summary(f[a])
           /\ ( /\ [i \in 1..Len(req.all) |-> req.all[i].name]
                     = <<"Zeta", "alpha", "Beta">>
                /\ req.type = "public" /\ req.direction = "asc"
                /\ req.per_page = 2 /\ req.page = 1 )
                => [i \in 1..Len(window) |-> window[i].name] = <<"alpha", "Beta">>

C2_Witness ==
    /\ ListOk
    /\ req.sort = "full_name" /\ req.type = "public" /\ req.direction = "asc"
    /\ req.per_page = 2 /\ req.page = 1
    /\ [i \in 1..Len(req.all) |-> req.all[i].name] = <<"Zeta", "alpha", "Beta">>
    /\ [i \in 1..Len(Body(res)) |-> Body(res)[i].name] = <<"alpha", "Beta">>

\* C3: every successful return of the four tools is the header line, a blank
\* line, then the JSON body, with nothing before the header.
Header ==
    CASE req.tool = "list_repositories" -> "Found "
      [] req.tool = "get_repository" -> "Repository Details:"
      [] req.tool = "search_repositories" -> "Search Results:"
      [] req.contents.tag = "dir" -> "Directory Contents ("
      [] OTHER -> "File Details:"
HeaderBlankJson(out) ==
    /\ out[Len(out)].k = "json"
    /\ Len(out) >= 4
    /\ out[Len(out) - 1].k = "nl"
    /\ out[Len(out) - 2].k = "nl"
    /\ \A j \in 1..(Len(out) - 3) : out[j].k # "nl"
    /\ out[1] = T(Header)
C3_HeaderThenJson_Claimed ==
    (/\ req.tool # "none"
     /\ res.kind = "returned"
     /\ res.out[Len(res.out)].k = "json") => HeaderBlankJson(res.out)

\* C4: when the repository lookup succeeds and the license lookup fails, the
\* detail record is returned with license null; the license failure is never
\* what makes get_repository raise (only the repository or topics lookup is).
C4_LicenseFailureSwallowed ==
    (/\ req.tool = "get_repository"
     /\ req.found = Ok
     /\ req.lic.tag # "ok") =>
        /\ req.topics = Ok =>
             /\ res.kind = "returned"
             /\ Body(res).license = PyNone
        /\ res.kind = "raised" =>
             /\ req.topics # Ok
             /\ res.msg[Len(res.msg)] = Fmt(ErrMsg(req.topics.e))

C4_Witness ==
    /\ req.tool = "get_repository"
    /\ req.found = Ok
    /\ req.lic.tag = "GithubException"
    /\ res.kind = "returned"
    /\ Body(res).license = PyNone

\* C5: a file whose text is not classified as binary is previewed whole when
\* it has at most 4000 characters, and as its first 4000 characters followed
\* by the truncation marker when it has more.
C5_PreviewTruncation ==
    (FileOk /\ FileText.tag = "text" /\ Body(res).preview # BinaryPlaceholder) =>
        LET text == FileText.s
            preview == Body(res).preview
        IN IF Len(text) <= 4000
             THEN preview = text
             ELSE /\ Len(preview) = 4000 + Len(TruncatedMarker)
                  /\ SubSeq(preview, 1, 4000) = SubSeq(text, 1, 4000)
                  /\ SubSeq(preview, 4001, Len(preview)) = TruncatedMarker

C5_Witness ==
    /\ FileOk
    /\ FileText.tag = "text"
    /\ Len(FileText.s) = 5000
    /\ Len(Body(res).preview) = 4018
    /\ SubSeq(Body(res).preview, 1, 4000) = SubSeq(FileText.s, 1, 4000)

\* C6 as claimed: the preview is the binary placeholder exactly when at least
\* 11 of the first 100 characters are below 32 and not tab, newline or
\* carriage return.
ControlCount(text, spared) ==
    Cardinality({i \in 1..Min(100, Len(text)) :
                    text[i] < 32 /\ text[i] \notin spared})
C6_Binary_Claimed ==
    (FileOk /\ FileText.tag = "text") =>
        (Body(res).preview = BinaryPlaceholder
            <=> ControlCount(FileText.s, {9, 10, 13}) >= 11)

\* C6 as amended: the preview is the binary placeholder exactly when at least
\* 11 of the first 100 characters are below 32 and outside 9..13 (tab, newline,
\* vertical tab, form feed, carriage return).
C6_Binary ==
    (FileOk /\ FileText.tag = "text") =>
        (Body(res).preview = BinaryPlaceholder
            <=> ControlCount(FileText.s, 9..13) >= 11)

\* exactly 11 control characters in the sample, the last at character 100
C6_Witness ==
    /\ FileOk
    /\ FileText.tag = "text"
    /\ ControlCount(FileText.s, 9..13) = 11
    /\ Len(FileText.s) > 100
    /\ FileText.s[100] < 9 /\ FileText.s[101] < 9
    /\ Body(res).preview = BinaryPlaceholder

\* C7: with the token absent or empty the process exits with status 1 having
\* written nothing to stdout, before the client exists, before any tool is
\* registered and before a transport runs; no invocation is served.
C7_NoTokenExit ==
    (token = PyNone \/ token = PyStr("")) =>
        /\ pc \in {"load_env", "exited"}
        /\ ~gh /\ tools = <<>> /\ transport = "none"
        /\ ~stdout_used
        /\ req = Idle /\ res = NoResult
        /\ pc = "load_env" => ENABLED ExitNoToken /\ ~ENABLED MakeClient
        /\ pc = "exited" => exit_status = 1 /\ ~ENABLED Next

C7_Witness ==
    /\ token = PyStr("")
    /\ pc = "exited"
    /\ exit_status = 1
    /\ ~stdout_used

\* C8: sorting by created, updated or pushed returns a result in which every
\* repository lacking the timestamp comes after every repository having it,
\* for both directions.
RepoNamed(n) == CHOOSE r \in RepoPool : r.name = n
C8_NullsLast_Claimed ==
    (/\ req.tool = "list_repositories"
     /\ req.outcome = Ok
     /\ req.sort \in {"created", "updated", "pushed"}) =>
        /\ res.kind = "returned"
        /\ \A i, j \in 1..Len(Body(res)) :
             (/\ SortKey(req.sort, RepoNamed(Body(res)[i].name)) = PyNone
              /\ SortKey(req.sort, RepoNamed(Body(res)[j].name)) # PyNone)
                => j < i

\* C9 as claimed: get_repository_contents raises exactly when the provider
\* rejected the repository or path lookup; nothing else is raised.
C9_RaisesOnlyOnRejection_Claimed ==
    req.tool = "get_repository_contents" =>
        (res.kind = "raised"
            <=> \/ req.found.tag = "GithubException"
                \/ req.found = Ok /\ req.contents.tag = "GithubException")

\* C9 as amended: get_repository_contents raises (always a RuntimeError)
\* exactly when the repository lookup raised anything or the content lookup
\* raised anything but an AssertionError: provider rejections as "Failed to
\* get contents for ...", every other exception as "Unexpected error while
\* getting contents for ..."; an AssertionError from the content lookup and a
\* failure while decoding are returned as diagnostic strings.
C9_RaiseReportSplit ==
    req.tool = "get_repository_contents" =>
        LET lookup == IF req.found = Ok THEN req.contents ELSE req.found
            escaped == /\ lookup.tag \notin {"dir", "file"}
                       /\ ~(req.found = Ok /\ lookup.tag = "AssertionError")
        IN /\ res.kind = "raised" <=> escaped
           /\ res.kind = "raised" =>
                /\ res.exc = "RuntimeError"
                /\ res.msg[1] = IF lookup.tag = "GithubException"
                                  THEN "Failed to get contents for "
                                  ELSE "Unexpected error while getting contents for "
           /\ (req.found = Ok /\ lookup.tag = "AssertionError") =>
                /\ res.kind = "returned"
                /\ res.out[1] = T("[DEBUG] AssertionError while getting contents for ")
           /\ (req.found = Ok /\ lookup.tag = "file" /\ FileText.tag = "escaped") =>
                /\ res.kind = "returned"
                /\ \E i \in 1..Len(res.out) :
                     res.out[i] = T("Unexpected error decoding file for ")

\* a connection failure during the repository lookup
C9_Witness ==
    /\ req.tool = "get_repository_contents"
    /\ req.found = OtherError
    /\ res.kind = "raised"
    /\ res.msg[1] = "Unexpected error while getting contents for "

\* C10: a provider rejection of a tool's API call is raised with the
\* provider's message when the error carries structured data and otherwise
\* with the exception's text, never empty or a null placeholder, and with
\* owner/repo (and path) for get_repository and get_repository_contents.
Rejection ==
    CASE req.tool = "list_repositories" -> req.outcome
      [] req.tool = "search_repositories" -> req.outcome
      [] req.tool = "get_repository" -> req.found
      [] req.tool = "get_repository_contents" ->
           IF req.found = Ok THEN req.contents ELSE req.found
      [] OTHER -> Ok
Contains(seq, x) == \E i \in 1..Len(seq) : seq[i] = x
C10_ProviderMessage_Claimed ==
    Rejection.tag = "GithubException" =>
        LET e == Rejection.e
            last == res.msg[Len(res.msg)]
            structured == IF e.data.tag = "dict" THEN DOMAIN e.data.d # {}
                                                 ELSE FALSE
        IN /\ res.kind = "raised"
           /\ last \notin {"", "None"}
           /\ IF structured /\ "message" \in DOMAIN e.data.d
                THEN last = e.data.d.message
                ELSE ~structured => last = e.text
           /\ req.tool \in {"get_repository", "get_repository_contents"} =>
                Contains(res.msg, req.owner) /\ Contains(res.msg, req.repo)
           /\ req.tool = "get_repository_contents" =>
                (req.path # "" => Contains(res.msg, req.path))

====
